---- MODULE Spec2Model ----
(***************************************************************************)
(* Verification model of the VimeoDownloader download engine:              *)
(*   RetryUtil.withRetry        (src/src/RetryUtil.ts)                     *)
(*   Semaphore                  (src/src/Semaphore.ts)                     *)
(*   ProgressTracker            (src/unnamed/part_000, second class)       *)
(*   VimeoDownloader.downloadVideos / downloadSingleVideo                  *)
(*                              (src/src/VimeoDownloader.ts)               *)
(*                                                                         *)
(* Specifications:                                                         *)
(*   SpecRetry   one call of withRetry with arbitrary options and errors   *)
(*   SpecLedger  arbitrary calls of the ProgressTracker API, saves, loads  *)
(*   SpecJob     downloadVideos over one job, every file/server situation  *)
(*   Spec        downloadVideos over several jobs and N permits            *)
(***************************************************************************)
EXTENDS Integers, Sequences, FiniteSets, TLC

VARIABLES
    rOpts,        \* withRetry harness: the RetryOptions of the call
    r,            \* withRetry harness: loop state and what the caller observed
    downloads,    \* ProgressTracker.downloads : id -> record (NoRec when absent)
    pendingWrite, \* latest Bun.write issued by saveProgress and not yet on disk
    disk,         \* content of .vimeo-download-progress.json (NoFile when absent)
    now,          \* Date.now()
    ledgerLog,    \* the last ProgressTracker call and the map it was applied to
    config,       \* Config: maxConcurrentDownloads, overwrite
    jobs,         \* the DownloadJob[] handed to downloadVideos
    server,       \* what the download server may answer in this run
    sem,          \* Semaphore: permits, waiting
    task,         \* per job: position and locals of its async task
    finalFile,    \* size of the file at job.filePath (Absent when missing)
    partialFile,  \* size of the file at job.filePath + '.partial'
    orch,         \* downloadVideos / start / process: position and counters
    fn            \* pure-function harness: the argument and the result

retryVars  == <<rOpts, r>>
ledgerVars == <<downloads, pendingWrite, disk, now, ledgerLog>>
dlVars     == <<config, jobs, server, sem, task, finalFile, partialFile, orch>>
fnVars     == <<fn>>
vars       == <<rOpts, r, downloads, pendingWrite, disk, now, ledgerLog,
                config, jobs, server, sem, task, finalFile, partialFile, orch, fn>>

(***************************************************************************)
(* Bounds of the model.                                                    *)
(***************************************************************************)
MaxRetries == 2     \* SpecRetry: options.maxRetries ranges over 0..MaxRetries
NumJobs    == 3     \* Spec: number of jobs handed to downloadVideos
MaxClock   == 1     \* SpecLedger: Date.now() ranges over 0..MaxClock
MaxOps     == 2     \* SpecLedger: number of ProgressTracker calls explored

(***************************************************************************)
(* JavaScript values.                                                      *)
(***************************************************************************)
Undefined == "undefined"
NoStatus  == -1                       \* NetworkError.status left undefined
Truthy(n) == n # NoStatus /\ n # 0    \* `if (status)`, `if (retryAfter)`
Min(a, b) == IF a <= b THEN a ELSE b

RECURSIVE Pow(_, _)
Pow(b, e) == IF e = 0 THEN 1 ELSE b * Pow(b, e - 1)

(***************************************************************************)
(* Errors.  kw is the set of the substrings isNonRetryableError and        *)
(* classifyGenericError look for that the lower-cased message contains;    *)
(* at is the number of the operation call that raised the error (object    *)
(* identity: two errors of the same kind raised by two calls differ).      *)
(***************************************************************************)
NoError == [kind |-> "none"]

PlainError(name, kw) ==
    [kind |-> "error", name |-> name, kw |-> kw, status |-> NoStatus,
     retryAfter |-> 0, errorType |-> Undefined, retryable |-> Undefined, at |-> 0]

IsErrorRetryable(errorType, status) ==
    IF errorType = "AUTH_ERROR" \/ errorType = "PERMISSION_ERROR" THEN FALSE
    ELSE IF Truthy(status) /\ status >= 400 /\ status < 500 /\ status # 429 THEN FALSE
    ELSE TRUE

CreateNetworkError(kw, status, retryAfter, errorType) ==
    [kind |-> "error", name |-> "Error", kw |-> kw, status |-> status,
     retryAfter |-> retryAfter, errorType |-> errorType,
     retryable |-> IF IsErrorRetryable(errorType, status) THEN "true" ELSE "false",
     at |-> 0]

RaisedAt(e, n) == [e EXCEPT !.at = n]

DefaultRetryOnStatus == {429, 500, 502, 503, 504}

IsNonRetryableError(error, retryOnStatus) ==
    IF error.retryable # Undefined THEN error.retryable = "false"
    ELSE IF error.errorType \in {"AUTH_ERROR", "PERMISSION_ERROR"} THEN TRUE
    ELSE IF error.errorType \in {"RATE_LIMIT", "SERVER_ERROR", "TIMEOUT",
                                 "CONNECTION_FAILED"} THEN FALSE
    ELSE IF error.errorType \in {"PARSE_ERROR", "INVALID_RESPONSE"} THEN TRUE
    ELSE IF "unauthorized" \in error.kw \/ "authentication failed" \in error.kw
         THEN TRUE
    ELSE IF "forbidden" \in error.kw /\ 403 \notin retryOnStatus THEN TRUE
    ELSE IF Truthy(error.status) /\ error.status >= 400 /\ error.status < 500
            /\ error.status \notin retryOnStatus THEN TRUE
    ELSE IF "400" \in error.kw \/ "404" \in error.kw THEN TRUE
    ELSE FALSE

(***************************************************************************)
(* The wait before the next attempt.  Math.random() is drawn by the caller *)
(* as jit, a number of twentieths: jitter = delay * 0.1 * (jit / 20).      *)
(***************************************************************************)
JitterDraws == {0, 10, 19}

\* Mutant: the retry-after hint is capped by maxDelay like the backoff.
RetryDelayCapsHint(attempt, opts, error, jit) ==
    LET multiplier == IF opts.backoffMultiplier = 0 THEN 2 ELSE opts.backoffMultiplier
        base       == opts.baseDelay * Pow(multiplier, attempt)
    IN  IF error.status = 429 /\ Truthy(error.retryAfter)
        THEN Min(error.retryAfter * 1000, opts.maxDelay)
        ELSE Min(IF opts.enableJitter # "false" THEN base + (base * jit) \div 200
                 ELSE base, opts.maxDelay)

\* Mutant: the backoff does not grow with the attempt number.
RetryDelayFlat(attempt, opts, error, jit) ==
    IF error.status = 429 /\ Truthy(error.retryAfter)
    THEN error.retryAfter * 1000
    ELSE Min(IF opts.enableJitter # "false"
             THEN opts.baseDelay + (opts.baseDelay * jit) \div 200
             ELSE opts.baseDelay, opts.maxDelay)

RetryDelay(attempt, opts, error, jit) ==
    LET multiplier == IF opts.backoffMultiplier = 0 THEN 2 ELSE opts.backoffMultiplier
        base       == opts.baseDelay * Pow(multiplier, attempt)
        jittered   == IF opts.enableJitter # "false"
                      THEN base + (base * jit) \div 200
                      ELSE base
        capped     == Min(jittered, opts.maxDelay)
    IN  IF error.status = 429 /\ Truthy(error.retryAfter)
        THEN error.retryAfter * 1000
        ELSE capped

(***************************************************************************)
(* The catch block of withRetry for the failure `error` of attempt         *)
(* `attempt` (0-based): what the loop does next.                           *)
(*   verdict "throw": the error is raised to the caller                    *)
(*   verdict "sleep": sleep(delay), then the next attempt                  *)
(*   onRetry: whether options.onRetry was called (with attempt+1, error)   *)
(***************************************************************************)
\* Mutant: the budget test is off by one (attempt === maxRetries - 1).
WithRetryCatchEarly(attempt, opts, error, jit) ==
    IF IsNonRetryableError(error, opts.retryOnStatus)
    THEN [verdict |-> "throw", onRetry |-> FALSE, delay |-> 0]
    ELSE IF attempt >= opts.maxRetries - 1
    THEN [verdict |-> "throw", onRetry |-> opts.hasOnRetry, delay |-> 0]
    ELSE [verdict |-> "sleep", onRetry |-> opts.hasOnRetry,
          delay |-> RetryDelay(attempt, opts, error, jit)]

\* Mutant: the classification is not consulted, every failure is retried.
WithRetryCatchRetriesAll(attempt, opts, error, jit) ==
    IF attempt = opts.maxRetries
    THEN [verdict |-> "throw", onRetry |-> opts.hasOnRetry, delay |-> 0]
    ELSE [verdict |-> "sleep", onRetry |-> opts.hasOnRetry,
          delay |-> RetryDelay(attempt, opts, error, jit)]

WithRetryCatch(attempt, opts, error, jit) ==
    IF IsNonRetryableError(error, opts.retryOnStatus)
    THEN [verdict |-> "throw", onRetry |-> FALSE, delay |-> 0]
    ELSE IF attempt = opts.maxRetries
    THEN [verdict |-> "throw", onRetry |-> opts.hasOnRetry, delay |-> 0]
    ELSE [verdict |-> "sleep", onRetry |-> opts.hasOnRetry,
          delay |-> RetryDelay(attempt, opts, error, jit)]

(***************************************************************************)
(* SpecRetry: one call of RetryUtil.withRetry.  The operation is the       *)
(* environment: every call of it either resolves or rejects with one of    *)
(* ErrorPool.                                                              *)
(***************************************************************************)
ErrorPool ==
    { CreateNetworkError({"unauthorized"}, 401, 0, "AUTH_ERROR"),
      CreateNetworkError({"forbidden"}, 403, 0, "PERMISSION_ERROR"),
      CreateNetworkError({}, 429, 2, "RATE_LIMIT"),
      CreateNetworkError({}, 429, 0, "RATE_LIMIT"),
      CreateNetworkError({}, 500, 0, "SERVER_ERROR"),
      CreateNetworkError({}, 0, 0, "TIMEOUT"),
      CreateNetworkError({"400"}, 400, 0, "API_ERROR"),
      PlainError("Error", {}),
      PlainError("Error", {"404"}),
      PlainError("Error", {"forbidden"}),
      CreateNetworkError({}, 0, 0, "PARSE_ERROR"),
      CreateNetworkError({}, 500, 0, "PARSE_ERROR"),
      CreateNetworkError({}, 200, 0, "INVALID_RESPONSE"),
      CreateNetworkError({"404"}, 404, 0, "INVALID_RESPONSE"),
      [PlainError("Error", {}) EXCEPT !.errorType = "PARSE_ERROR"] }

RetryOptionChoices ==
    [ maxRetries        : 0..MaxRetries,
      baseDelay         : {1000},
      maxDelay          : {1500, 10000},
      retryOnStatus     : {DefaultRetryOnStatus},
      hasOnRetry        : BOOLEAN,
      enableJitter      : {Undefined, "false"},
      backoffMultiplier : {0, 1, 3} ]

RetryIdle ==
    [pc |-> "idle", attempt |-> 0, calls |-> 0, thrown |-> NoError,
     lastFailure |-> NoError, onRetryCalls |-> 0, onRetryAttempt |-> 0,
     onRetryError |-> NoError, sleeps |-> 0, lastDelay |-> 0,
     delays |-> <<>>, hinted |-> FALSE]

\* withRetry entered: attempt = 0 and the operation is invoked.
RetryEntered == [RetryIdle EXCEPT !.pc = "calling", !.calls = 1]

\* `return await operation()` : the operation resolved.
RetryOpSucceeds ==
    /\ r.pc = "calling"
    /\ r' = [r EXCEPT !.pc = "returned"]
    /\ UNCHANGED <<rOpts, ledgerVars, dlVars, fnVars>>

\* The operation rejected with e: the catch block.
RetryOpFails ==
    /\ r.pc = "calling"
    /\ \E e0 \in ErrorPool, jit \in JitterDraws :
         LET e == RaisedAt(e0, r.calls)
             c == WithRetryCatch(r.attempt, rOpts, e, jit)
             called == [r EXCEPT !.lastFailure = e,
                          !.onRetryCalls   = IF c.onRetry THEN @ + 1 ELSE @,
                          !.onRetryAttempt = IF c.onRetry THEN r.attempt + 1 ELSE @,
                          !.onRetryError   = IF c.onRetry THEN e ELSE @]
         IN  r' = IF c.verdict = "throw"
                  THEN [called EXCEPT !.pc = "threw", !.thrown = e]
                  ELSE [called EXCEPT !.pc = "sleeping", !.sleeps = @ + 1,
                                      !.lastDelay = c.delay,
                                      !.delays = Append(@, c.delay),
                                      !.hinted = @ \/ (e.status = 429
                                                       /\ Truthy(e.retryAfter))]
    /\ UNCHANGED <<rOpts, ledgerVars, dlVars, fnVars>>

\* sleep(delay) resolved: attempt++, loop test, next call of the operation
\* (or `throw lastError!` after the loop).
RetrySleepDone ==
    /\ r.pc = "sleeping"
    /\ r' = IF r.attempt + 1 <= rOpts.maxRetries
            THEN [r EXCEPT !.pc = "calling", !.attempt = @ + 1, !.calls = @ + 1]
            ELSE [r EXCEPT !.pc = "threw", !.attempt = @ + 1, !.thrown = r.lastFailure]
    /\ UNCHANGED <<rOpts, ledgerVars, dlVars, fnVars>>

NextRetry == RetryOpSucceeds \/ RetryOpFails \/ RetrySleepDone

(***************************************************************************)
(* ProgressTracker.  `downloads` is the Map: a function whose domain is    *)
(* the set of ids present.  A DownloadProgress is a function from the keys *)
(* the object has to their values, so that an optional key (failed,        *)
(* lastUpdate, endTime, errorMessage) is absent until it is assigned.      *)
(***************************************************************************)
UndefinedSize == -2                  \* a totalSize that is `undefined`
EmptyMap == [k \in {} |-> 0]
Has(d, id) == id \in DOMAIN d
With(rec, key, val) == [k \in DOMAIN rec \cup {key} |-> IF k = key THEN val ELSE rec[k]]
MapSet(d, id, rec) == [k \in DOMAIN d \cup {id} |-> IF k = id THEN rec ELSE d[k]]
Flag(rec, key) == key \in DOMAIN rec /\ rec[key] = TRUE       \* truthiness of rec.key
Num(rec, key) == IF key \in DOMAIN rec THEN rec[key] ELSE UndefinedSize

IsActive(rec) == ~Flag(rec, "completed") /\ ~Flag(rec, "failed")

\* Mutant: an existing record is always replaced by a fresh one.
StartDownloadReset(d, id, totalSize, filename, t) ==
    MapSet(d, id, [id |-> id, filename |-> filename, totalSize |-> totalSize,
                   downloadedSize |-> 0, startTime |-> t, completed |-> FALSE])

StartDownload(d, id, totalSize, filename, t) ==
    IF Has(d, id) /\ ~Flag(d[id], "completed") /\ ~Flag(d[id], "failed")
    THEN MapSet(d, id, With(With(With(d[id], "filename", filename),
                                 "totalSize", totalSize), "lastUpdate", t))
    ELSE MapSet(d, id, [id |-> id, filename |-> filename, totalSize |-> totalSize,
                        downloadedSize |-> 0, startTime |-> t, completed |-> FALSE])

UpdateProgress(d, id, downloadedSize, t) ==
    IF Has(d, id)
    THEN MapSet(d, id, With(With(d[id], "downloadedSize", downloadedSize),
                            "lastUpdate", t))
    ELSE d

(***************************************************************************)
(* JSON.stringify drops the keys whose value is undefined; JSON.parse      *)
(* yields an object with the keys of the text.                             *)
(***************************************************************************)
NumericKeys == {"totalSize", "downloadedSize", "startTime", "lastUpdate", "endTime"}
JsonStringify(rec) ==
    [k \in {x \in DOMAIN rec : ~(x \in NumericKeys /\ rec[x] = UndefinedSize)} |->
       rec[k]]
JsonParse(text) == text

NoWrite == [kind |-> "none"]
NoFile  == [kind |-> "none"]

\* The text saveProgress hands to Bun.write; `from` remembers the map it was
\* made from.
Snapshot(d, t) ==
    [kind |-> "snapshot", timestamp |-> t,
     downloads |-> {JsonStringify(d[k]) : k \in DOMAIN d},
     from |-> d]

\* A ledger is the pair of the map and the write in flight.
Ledger(d, w) == [d |-> d, w |-> w]

SaveProgress(L, t) == Ledger(L.d, Snapshot(L.d, t))

\* Mutant: the save is made before the record is marked.
CompleteDownloadSavesFirst(L, id, t) ==
    IF Has(L.d, id)
    THEN Ledger(MapSet(L.d, id, With(With(With(L.d[id], "completed", TRUE),
                                          "failed", FALSE), "endTime", t)),
                SaveProgress(L, t).w)
    ELSE L

CompleteDownload(L, id, t) ==
    IF Has(L.d, id)
    THEN SaveProgress(
           Ledger(MapSet(L.d, id, With(With(With(L.d[id], "completed", TRUE),
                                            "failed", FALSE), "endTime", t)),
                  L.w), t)
    ELSE L

FailDownload(L, id, errorMessage, t) ==
    IF Has(L.d, id)
    THEN SaveProgress(
           Ledger(MapSet(L.d, id, With(With(With(L.d[id], "failed", TRUE),
                                            "errorMessage", errorMessage),
                                       "endTime", t)),
                  L.w), t)
    ELSE L

GetFailedDownloads(d) == {d[k] : k \in {x \in DOMAIN d : Flag(d[x], "failed")}}
GetIncompleteDownloads(d) == {d[k] : k \in {x \in DOMAIN d : IsActive(d[x])}}

\* Mutant: the load keeps every record that is not completed.
LoadProgressKeepsFailed(d, file) ==
    IF file = NoFile THEN d
    ELSE LET kept == {e \in {JsonParse(x) : x \in file.downloads} :
                        ~Flag(e, "completed")}
         IN  [k \in DOMAIN d \cup {e.id : e \in kept} |->
                IF \E e \in kept : e.id = k
                THEN CHOOSE e \in kept : e.id = k
                ELSE d[k]]

LoadProgress(d, file) ==
    IF file = NoFile THEN d
    ELSE LET kept == {e \in {JsonParse(x) : x \in file.downloads} :
                        ~Flag(e, "completed") /\ ~Flag(e, "failed")}
         IN  [k \in DOMAIN d \cup {e.id : e \in kept} |->
                IF \E e \in kept : e.id = k
                THEN CHOOSE e \in kept : e.id = k
                ELSE d[k]]

\* cleanup(): the final save, then the file is unlinked when nothing is
\* incomplete.  The result is the ledger and the file on disk.
Cleanup(L, file, t) ==
    LET saved == SaveProgress(L, t)
    IN  [L    |-> saved,
         disk |-> IF GetIncompleteDownloads(L.d) = {} THEN NoFile ELSE file]

(***************************************************************************)
(* SpecLedger: the ProgressTracker API called in any order, the 5 s timer, *)
(* the landing of a write, and a restart of the process (a fresh           *)
(* ProgressTracker whose loadProgress reads the file).                     *)
(***************************************************************************)
LedgerIds   == {1, 2}
LedgerArgs  == {[totalSize |-> UndefinedSize, filename |-> "a.mp4"],
                [totalSize |-> 2048, filename |-> "b.mp4"]}
LedgerBytes == {512}

\* loading: the file whose text() the loadProgress of the constructor awaits
\* (NoFile: no load is in flight).
LogIdle == [op |-> "none", id |-> 0, ops |-> 0, totalSize |-> 0, filename |-> "",
            loading |-> NoFile]
Logged(op, id, totalSize, filename) ==
    [op |-> op, id |-> id, ops |-> ledgerLog.ops + 1,
     totalSize |-> totalSize, filename |-> filename, loading |-> ledgerLog.loading]

\* The tracker takes calls until the shutdown hook has run.
Serving == ledgerLog.ops < MaxOps /\ ledgerLog.op # "cleanup"

ApiStart ==
    /\ Serving
    /\ \E id \in LedgerIds, a \in LedgerArgs :
         /\ downloads' = StartDownload(downloads, id, a.totalSize, a.filename, now)
         /\ ledgerLog' = Logged("start", id, a.totalSize, a.filename)
    /\ UNCHANGED <<pendingWrite, disk, now, retryVars, dlVars, fnVars>>

ApiUpdate ==
    /\ Serving
    /\ \E id \in LedgerIds, n \in LedgerBytes :
         /\ downloads' = UpdateProgress(downloads, id, n, now)
         /\ ledgerLog' = Logged("update", id, n, "")
    /\ UNCHANGED <<pendingWrite, disk, now, retryVars, dlVars, fnVars>>

ApiComplete ==
    /\ Serving
    /\ \E id \in LedgerIds :
         LET L == CompleteDownload(Ledger(downloads, pendingWrite), id, now)
         IN  /\ downloads' = L.d
             /\ pendingWrite' = L.w
             /\ ledgerLog' = Logged("complete", id, 0, "")
    /\ UNCHANGED <<disk, now, retryVars, dlVars, fnVars>>

ApiFail ==
    /\ Serving
    /\ \E id \in LedgerIds :
         LET L == FailDownload(Ledger(downloads, pendingWrite), id, "Network error", now)
         IN  /\ downloads' = L.d
             /\ pendingWrite' = L.w
             /\ ledgerLog' = Logged("fail", id, 0, "")
    /\ UNCHANGED <<disk, now, retryVars, dlVars, fnVars>>

\* setInterval(() => this.saveProgress(), 5000)
TimerSave ==
    /\ ledgerLog.op # "cleanup"          \* clearInterval in cleanup()
    /\ pendingWrite' = SaveProgress(Ledger(downloads, pendingWrite), now).w
    /\ pendingWrite' # pendingWrite
    /\ UNCHANGED <<downloads, disk, now, ledgerLog, retryVars, dlVars, fnVars>>

\* The Bun.write promise settles: the text is the content of the file.
WriteLands ==
    /\ pendingWrite # NoWrite
    /\ disk' = pendingWrite
    /\ pendingWrite' = NoWrite
    /\ UNCHANGED <<downloads, now, ledgerLog, retryVars, dlVars, fnVars>>

Tick ==
    /\ now < MaxClock
    /\ now' = now + 1
    /\ UNCHANGED <<downloads, pendingWrite, disk, ledgerLog, retryVars, dlVars, fnVars>>

\* The process is gone; a new one constructs a ProgressTracker on the same
\* directory and its loadProgress completes.
Restart ==
    /\ ledgerLog.op # "load"
    /\ downloads' = LoadProgress(EmptyMap, disk)
    /\ pendingWrite' = NoWrite
    /\ ledgerLog' = [LogIdle EXCEPT !.op = "load", !.ops = ledgerLog.ops]
    /\ UNCHANGED <<disk, now, retryVars, dlVars, fnVars>>

\* process.on('exit' | 'SIGINT' | 'SIGTERM'): cleanup() runs.
Shutdown ==
    /\ ledgerLog.op # "cleanup"
    /\ LET c == Cleanup(Ledger(downloads, pendingWrite), disk, now)
       IN  /\ pendingWrite' = c.L.w
           /\ disk' = c.disk
    /\ ledgerLog' = [LogIdle EXCEPT !.op = "cleanup", !.ops = ledgerLog.ops]
    /\ UNCHANGED <<downloads, now, retryVars, dlVars, fnVars>>

NextLedger ==
    ApiStart \/ ApiUpdate \/ ApiComplete \/ ApiFail \/ TimerSave \/ WriteLands
    \/ Tick \/ Restart \/ Shutdown

(***************************************************************************)
(* Semaphore.  `waiting` holds, in order, the tasks whose acquire()        *)
(* callback is queued; `woken` is the task whose promise a call resolved   *)
(* (0 when none).                                                          *)
(***************************************************************************)
\* A JavaScript number is an integer or NaN.  NaN compares false with every
\* number, and NaN + 1 and NaN - 1 are NaN.
NaN == -999

\* Mutant: NaN passes the test.
GreaterThanZeroOrNaN(n) == n = NaN \/ n > 0

\* n > 0
GreaterThanZero(n) == n # NaN /\ n > 0

\* n++ and n--
Increment(n) == IF n = NaN THEN NaN ELSE n + 1
Decrement(n) == IF n = NaN THEN NaN ELSE n - 1

\* parseInt(options.concurrent)
ParseInt(str) ==
    CASE str = "0" -> 0
      [] str = "-1" -> -1
      [] str = "1" -> 1
      [] str = "2" -> 2
      [] str = "3" -> 3
      [] OTHER -> NaN

\* Mutant: the test admits a caller when no permit is left (permits >= 0).
SemAcquireOffByOne(s, j) ==
    IF s.permits >= 0
    THEN [permits |-> s.permits - 1, waiting |-> s.waiting, woken |-> j]
    ELSE [permits |-> s.permits, waiting |-> Append(s.waiting, j), woken |-> 0]

\* Mutant: acquire admits the caller without taking the permit.
SemAcquireFree(s, j) ==
    IF s.permits > 0
    THEN [permits |-> s.permits, waiting |-> s.waiting, woken |-> j]
    ELSE [permits |-> s.permits, waiting |-> Append(s.waiting, j), woken |-> 0]

SemAcquire(s, j) ==
    IF GreaterThanZero(s.permits)
    THEN [permits |-> Decrement(s.permits), waiting |-> s.waiting, woken |-> j]
    ELSE [permits |-> s.permits, waiting |-> Append(s.waiting, j), woken |-> 0]

\* Mutant: release hands the permit to a waiting caller and also returns it
\* to the pool.
SemReleaseTwice(s) ==
    IF Len(s.waiting) > 0
    THEN [permits |-> s.permits + 1, waiting |-> Tail(s.waiting),
          woken |-> Head(s.waiting)]
    ELSE [permits |-> s.permits + 1, waiting |-> s.waiting, woken |-> 0]

\* Mutant: release admits the caller that queued last.
SemReleaseLifo(s) ==
    IF Len(s.waiting) > 0
    THEN [permits |-> (s.permits + 1) - 1,
          waiting |-> SubSeq(s.waiting, 1, Len(s.waiting) - 1),
          woken |-> s.waiting[Len(s.waiting)]]
    ELSE [permits |-> s.permits + 1, waiting |-> s.waiting, woken |-> 0]

SemRelease(s) ==
    IF Len(s.waiting) > 0
    THEN [permits |-> Decrement(Increment(s.permits)), waiting |-> Tail(s.waiting),
          woken |-> Head(s.waiting)]
    ELSE [permits |-> Increment(s.permits), waiting |-> s.waiting, woken |-> 0]

(***************************************************************************)
(* SpecSem: callers of one Semaphore; each calls acquire(), holds the      *)
(* permit, calls release(), and may come back.                             *)
(***************************************************************************)
Callers == DOMAIN task
CallerIdle == [pc |-> "idle", rounds |-> 0]

CallAcquire(j) ==
    /\ task[j].pc = "idle"
    /\ task[j].rounds < MaxOps
    /\ LET a == SemAcquire(sem, j)
       IN  /\ sem' = [permits |-> a.permits, waiting |-> a.waiting]
           /\ task' = [task EXCEPT ![j].pc = IF a.woken = j THEN "holding"
                                             ELSE "waiting"]
    /\ UNCHANGED <<config, jobs, server, finalFile, partialFile, orch,
                   ledgerVars, retryVars, fnVars>>

CallRelease(j) ==
    /\ task[j].pc = "holding"
    /\ LET rel == SemRelease(sem)
           t1  == [task EXCEPT ![j] = [pc |-> "idle", rounds |-> task[j].rounds + 1]]
       IN  /\ sem' = [permits |-> rel.permits, waiting |-> rel.waiting]
           /\ task' = IF rel.woken # 0
                      THEN [t1 EXCEPT ![rel.woken].pc = "holding"]
                      ELSE t1
    /\ UNCHANGED <<config, jobs, server, finalFile, partialFile, orch,
                   ledgerVars, retryVars, fnVars>>

NextSem ==
    \/ \E j \in Callers : CallAcquire(j)
    \/ \E j \in Callers : CallRelease(j)

(***************************************************************************)
(* downloadSingleVideo and downloadVideos.                                 *)
(***************************************************************************)
Absent             == -1      \* existsSync(path) is false
NoExit             == -1      \* the process has not exited
CorruptThreshold   == 1024
DownloadMaxRetries == 3

DownloadRetryOptions ==
    [ maxRetries        |-> DownloadMaxRetries,
      baseDelay         |-> 2000,
      maxDelay          |-> 30000,
      retryOnStatus     |-> {429, 500, 502, 503, 504, 416},
      hasOnRetry        |-> TRUE,
      enableJitter      |-> "true",
      backoffMultiplier |-> 2 ]

J == DOMAIN jobs
\* The files are keyed by their path: job.filePath for the destination, and
\* the same key for job.filePath + '.partial'.
PathOf(j) == jobs[j].filePath

TaskIdle ==
    [pc |-> "created", resumeFrom |-> 0, attempt |-> 0, range |-> 0,
     downloadedSize |-> 0, totalSize |-> 0, result |-> "none", error |-> NoError,
     requests |-> 0, firstRange |-> Absent, onRetryCalls |-> 0]

\* The names bound where the catch block of downloadVideos runs: the
\* parameters and locals of downloadVideos and of the arrow function.
DownloadVideosScope ==
    {"jobs", "semaphore", "actualDownloads", "skippedFiles", "downloadPromises",
     "job", "index", "result", "error", "guidance"}
InScope(name) == name \in DownloadVideosScope

\* `stats.size === job.size || (job.size === 0 && stats.size > 0)`
\* Mutant: only the file of exactly the expected size is complete.
IsAlreadyCompleteExact(fileSize, jobSize) == fileSize = jobSize
IsAlreadyComplete(fileSize, jobSize) ==
    fileSize = jobSize \/ (jobSize = 0 /\ fileSize > 0)

\* `job.size || stats.size`
OrElse(a, b) == IF a # 0 THEN a ELSE b

\* Mutant: a staging file is never resumed from.
ResumeOffsetNone(partialSize, jobSize) == 0
\* resumeFrom after the staging-file check, when the job goes on to stream.
ResumeOffset(partialSize, jobSize) ==
    IF partialSize # Absent /\ partialSize > 0 /\ partialSize < jobSize
    THEN partialSize ELSE 0

\* The operation of withRetry up to its first await: the request is issued.
IssueRequest(t) ==
    [t EXCEPT !.pc = "fetching", !.range = t.resumeFrom,
              !.requests = @ + 1,
              !.firstRange = IF t.requests = 0 THEN t.resumeFrom ELSE @,
              !.downloadedSize = 0, !.totalSize = 0]

\* The catch block of withRetry inside downloadSingleVideo, with the
\* onRetry callback of lines 670-677.
JobCatch(t, e) ==
    LET c  == WithRetryCatch(t.attempt, DownloadRetryOptions, e, 0)
        t1 == [t EXCEPT !.onRetryCalls = IF c.onRetry THEN @ + 1 ELSE @,
                        !.resumeFrom   = IF c.onRetry /\ e.status = 416 THEN 0 ELSE @,
                        !.range = 0, !.downloadedSize = 0, !.totalSize = 0]
    IN  IF c.verdict = "throw"
        THEN [t1 EXCEPT !.pc = "threw", !.error = e, !.result = "failed"]
        ELSE [t1 EXCEPT !.pc = "sleeping", !.error = e]

\* Mutant: the inner catch never deletes the staging file.
AfterStreamErrorKeeps(size) == size
\* The inner catch of the stream loop: the staging file is deleted when it
\* is smaller than 1 KiB.
AfterStreamError(size) == IF size # Absent /\ size < CorruptThreshold THEN Absent ELSE size

\* Mutant: the written size is not verified.
SizeMismatchNever(expectedSize, actualSize) == FALSE
\* `expectedSize > 0 && actualSize !== expectedSize`
SizeMismatch(expectedSize, actualSize) ==
    expectedSize > 0 /\ actualSize # expectedSize

\* What the stream loop may throw besides the size check: the connection
\* drops (fetch's TypeError), the disk is full, the file is not writable.
ConnectionDropped == PlainError("TypeError", {"fetch failed"})
DiskFull          == PlainError("Error", {"enospc", "no space left on device"})
AccessDenied      == PlainError("Error", {"eacces", "permission denied"})
SizeCheckFailed   == PlainError("Error", {"file size mismatch"})
\* statSync(tempFilePath) threw: the staging file is gone.
StatFailed        == PlainError("Error", {"enoent"})
\* fs.renameSync threw (the destination is a directory, another device, ...).
RenameFailed      == PlainError("Error", {"rename"})

\* Mutant: a rename that fails does not throw.
RenameSyncSilent(staging, dest, renamed) ==
    IF renamed THEN [dest |-> staging, staging |-> Absent, threw |-> FALSE]
    ELSE [dest |-> dest, staging |-> staging, threw |-> FALSE]
\* fs.renameSync(tempFilePath, filePath): the sizes of the two files after
\* the call and whether it threw.
RenameSync(staging, dest, renamed) ==
    IF renamed THEN [dest |-> staging, staging |-> Absent, threw |-> FALSE]
    ELSE [dest |-> dest, staging |-> staging, threw |-> TRUE]

Running == orch.pc = "running"
\* Continuations of settled promises still run between a rejection of the
\* join and process.exit; I/O events do not.
Alive == orch.pc \in {"running", "rejected"}

\* downloadVideos up to `await Promise.all`: every task calls acquire().
RECURSIVE AcquireAll(_, _, _)
AcquireAll(s, ts, j) ==
    IF j > Len(jobs) THEN [sem |-> s, task |-> ts]
    ELSE LET a == SemAcquire(s, j)
         IN  AcquireAll([permits |-> a.permits, waiting |-> a.waiting],
                        [ts EXCEPT ![j].pc = IF a.woken = j THEN "acquired" ELSE "waiting"],
                        j + 1)

StartDownloadVideos ==
    /\ orch.pc = "idle"
    /\ LET a == AcquireAll([permits |-> config.maxConcurrentDownloads, waiting |-> <<>>],
                           task, 1)
       IN  /\ sem' = a.sem
           /\ task' = a.task
    /\ orch' = [orch EXCEPT !.pc = "running"]
    /\ UNCHANGED <<config, jobs, server, finalFile, partialFile, ledgerVars, retryVars, fnVars>>

\* The task resumes after `await semaphore.acquire()`: downloadSingleVideo
\* runs to its first await (the fetch) or returns.
TaskBegin(j) ==
    /\ Alive
    /\ task[j].pc = "acquired"
    /\ LET job     == jobs[j]
           started == StartDownload(downloads, job.id, job.size, job.name, now)
           final   == finalFile[PathOf(j)]
           skip    == final # Absent /\ ~config.overwrite
                      /\ IsAlreadyComplete(final, job.size)
           final1  == IF final # Absent /\ config.overwrite THEN Absent ELSE final
           partial == partialFile[PathOf(j)]
           promote == partial # Absent /\ ~(partial > 0 /\ partial < job.size)
                      /\ partial >= job.size
           resume  == ResumeOffset(partial, job.size)
           \* no rename was tried, or renameSync threw: the staging file that
           \* cannot be resumed is deleted and the request is issued
           stream  == /\ downloads' = IF resume > 0
                                      THEN UpdateProgress(started, job.id, resume, now)
                                      ELSE started
                      /\ pendingWrite' = pendingWrite
                      /\ finalFile' = [finalFile EXCEPT ![PathOf(j)] = final1]
                      /\ partialFile' = [partialFile EXCEPT ![PathOf(j)] =
                                           IF partial # Absent /\ resume = 0 THEN Absent
                                           ELSE partial]
                      /\ task' = [task EXCEPT ![j] =
                                    IssueRequest([task[j] EXCEPT !.resumeFrom = resume])]
       IN  IF skip
           THEN LET L == CompleteDownload(
                           Ledger(UpdateProgress(started, job.id,
                                                 OrElse(job.size, final), now),
                                  pendingWrite), job.id, now)
                IN  /\ downloads' = L.d
                    /\ pendingWrite' = L.w
                    /\ task' = [task EXCEPT ![j].pc = "returned", ![j].result = "skipped"]
                    /\ UNCHANGED <<finalFile, partialFile>>
           ELSE IF promote
           THEN \E renamed \in server.renames :
                  LET mv == RenameSync(partial, final1, renamed)
                  IN
                  IF ~mv.threw
                  THEN LET L == CompleteDownload(
                                  Ledger(UpdateProgress(started, job.id, job.size, now),
                                         pendingWrite), job.id, now)
                       IN  /\ downloads' = L.d
                           /\ pendingWrite' = L.w
                           /\ finalFile' = [finalFile EXCEPT ![PathOf(j)] = mv.dest]
                           /\ partialFile' = [partialFile EXCEPT ![PathOf(j)] = mv.staging]
                           /\ task' = [task EXCEPT ![j].pc = "returned",
                                                   ![j].result = "downloaded"]
                  ELSE stream
           ELSE stream
    /\ UNCHANGED <<config, jobs, server, sem, orch, disk, now, ledgerLog, retryVars, fnVars>>

\* What the server may answer to the request in flight.
Answers(t) ==
    {a \in server.answers :
        /\ (a.status = 206 => t.range > 0 /\ a.contentLength = server.fileSize - t.range)
        /\ (a.status = 416 => t.range > 0)}

\* fetch settles.
Respond(j) ==
    /\ Running
    /\ task[j].pc = "fetching"
    /\ \E a \in Answers(task[j]) :
         LET t  == task[j]
             n  == t.requests
             fail(e, t1, p) ==
                 /\ task' = [task EXCEPT ![j] = JobCatch(t1, RaisedAt(e, n))]
                 /\ partialFile' = [partialFile EXCEPT ![PathOf(j)] = p]
         IN  CASE a.status = 0 ->      \* fetch rejected: no connection
                    fail(ConnectionDropped, t, partialFile[PathOf(j)])
               [] a.status = 403 ->
                    fail(CreateNetworkError({}, 403, 0, "PERMISSION_ERROR"),
                         t, partialFile[PathOf(j)])
               [] a.status = 404 ->
                    fail(CreateNetworkError({}, 404, 0, "API_ERROR"), t, partialFile[PathOf(j)])
               [] a.status = 416 ->
                    fail(CreateNetworkError({}, 416, 0, "SERVER_ERROR"),
                         [t EXCEPT !.resumeFrom = 0], Absent)
               [] a.status = 429 ->
                    fail(CreateNetworkError({}, 429, a.retryAfter, "RATE_LIMIT"),
                         t, partialFile[PathOf(j)])
               [] a.status \notin {200, 206} ->
                    fail(CreateNetworkError({}, a.status, 0, "API_ERROR"),
                         t, partialFile[PathOf(j)])
               [] t.resumeFrom > 0 /\ a.status # 206 ->
                    fail(CreateNetworkError({}, 200, 0, "SERVER_ERROR"),
                         [t EXCEPT !.resumeFrom = 0], Absent)
               [] t.resumeFrom > 0 /\ partialFile[PathOf(j)] = Absent ->
                    \* Bun.file(tempFilePath).arrayBuffer() rejects
                    fail(PlainError("Error", {}), t, Absent)
               [] OTHER ->
                    /\ task' = [task EXCEPT ![j].pc = "streaming",
                                  ![j].downloadedSize = t.resumeFrom,
                                  ![j].totalSize =
                                     IF a.status = 206
                                     THEN t.resumeFrom + a.contentLength
                                     ELSE a.contentLength]
                    /\ partialFile' = [partialFile EXCEPT ![PathOf(j)] =
                                         IF t.resumeFrom > 0 THEN @ ELSE 0]
    /\ UNCHANGED <<config, jobs, server, sem, orch, finalFile, ledgerVars, retryVars, fnVars>>

\* reader.read() yields a chunk.
ReadChunk(j) ==
    /\ Running
    /\ task[j].pc = "streaming"
    /\ \E len \in server.chunks :
         /\ task[j].downloadedSize + len <= server.fileSize
         /\ task' = [task EXCEPT ![j].downloadedSize = @ + len]
         /\ downloads' = UpdateProgress(downloads, jobs[j].id,
                                        task[j].downloadedSize + len, now)
         /\ partialFile' = [partialFile EXCEPT ![PathOf(j)] =
                              IF @ = Absent THEN Absent ELSE @ + len]
    /\ UNCHANGED <<config, jobs, server, sem, orch, finalFile,
                   pendingWrite, disk, now, ledgerLog, retryVars, fnVars>>

\* reader.read() yields done: the size check, the rename, completeDownload.
\* server.renames holds the outcomes renameSync may have (TRUE: it renamed).
ReadDone(j) ==
    /\ Running
    /\ task[j].pc = "streaming"
    /\ LET t            == task[j]
           actualSize   == partialFile[PathOf(j)]
           expectedSize == OrElse(jobs[j].size, t.totalSize)
           throws(e)    ==
               /\ task' = [task EXCEPT ![j] = JobCatch(t, RaisedAt(e, t.requests))]
               /\ partialFile' = [partialFile EXCEPT ![PathOf(j)] = AfterStreamError(@)]
               /\ UNCHANGED <<finalFile, downloads, pendingWrite>>
       IN  IF actualSize = Absent
           THEN throws(StatFailed)
           ELSE IF SizeMismatch(expectedSize, actualSize)
           THEN throws(SizeCheckFailed)
           ELSE \E renamed \in server.renames :
                  LET mv == RenameSync(actualSize, finalFile[PathOf(j)], renamed)
                  IN
                  IF ~mv.threw
                  THEN LET L == CompleteDownload(Ledger(downloads, pendingWrite),
                                                 jobs[j].id, now)
                       IN  /\ finalFile' = [finalFile EXCEPT ![PathOf(j)] = mv.dest]
                           /\ partialFile' = [partialFile EXCEPT ![PathOf(j)] = mv.staging]
                           /\ downloads' = L.d
                           /\ pendingWrite' = L.w
                           /\ task' = [task EXCEPT ![j].pc = "returned",
                                         ![j].result = "downloaded", ![j].range = 0,
                                         ![j].downloadedSize = 0, ![j].totalSize = 0]
                  ELSE throws(RenameFailed)
    /\ UNCHANGED <<config, jobs, server, sem, orch, disk, now, ledgerLog, retryVars, fnVars>>

\* reader.read() or the writer rejects.
ReadFail(j) ==
    /\ Running
    /\ task[j].pc = "streaming"
    /\ server.drops
    /\ \E e \in server.faults :
         task' = [task EXCEPT ![j] = JobCatch(task[j], RaisedAt(e, task[j].requests))]
    /\ partialFile' = [partialFile EXCEPT ![PathOf(j)] = AfterStreamError(@)]
    /\ UNCHANGED <<config, jobs, server, sem, orch, finalFile, ledgerVars, retryVars, fnVars>>

\* sleep(delay) resolves: the next attempt issues its request.
Wake(j) ==
    /\ Running
    /\ task[j].pc = "sleeping"
    /\ task' = [task EXCEPT ![j] =
                  IssueRequest([task[j] EXCEPT !.attempt = @ + 1, !.error = NoError])]
    /\ UNCHANGED <<config, jobs, server, sem, orch, finalFile, partialFile,
                   ledgerVars, retryVars, fnVars>>

\* The task resumes after `await this.downloadSingleVideo(...)`: the rest of
\* the try block or the catch block, then the finally block.
TaskSettle(j) ==
    /\ Alive
    /\ task[j].pc \in {"returned", "threw"}
    /\ LET t       == task[j]
           rel     == SemRelease(sem)
           handled == t.pc = "returned" \/ InScope("trackingId")
           L       == IF t.pc = "threw" /\ InScope("trackingId")
                      THEN FailDownload(Ledger(downloads, pendingWrite), jobs[j].id,
                                        "userMessage", now)
                      ELSE Ledger(downloads, pendingWrite)
           t1      == [task EXCEPT ![j].pc = IF handled THEN "done" ELSE "rejected",
                                   ![j].error = IF t.pc = "threw" /\ ~handled
                                                THEN PlainError("ReferenceError", {})
                                                ELSE @]
       IN  /\ sem' = [permits |-> rel.permits, waiting |-> rel.waiting]
           /\ task' = IF rel.woken # 0
                      THEN [t1 EXCEPT ![rel.woken].pc = "acquired"]
                      ELSE t1
           /\ downloads' = L.d
           /\ pendingWrite' = L.w
           /\ orch' = [orch EXCEPT
                         !.pc = IF handled THEN @ ELSE "rejected",
                         !.actualDownloads = IF t.result = "downloaded" THEN @ + 1 ELSE @,
                         !.skippedFiles = IF t.result = "skipped" THEN @ + 1 ELSE @]
    /\ UNCHANGED <<config, jobs, server, finalFile, partialFile, disk, now,
                   ledgerLog, retryVars, fnVars>>

\* `await Promise.all(downloadPromises)` resolves; downloadVideos and start
\* return.
Join ==
    /\ Running
    /\ \A j \in J : task[j].pc = "done"
    /\ orch' = [orch EXCEPT !.pc = "returned"]
    /\ UNCHANGED <<config, jobs, server, sem, task, finalFile, partialFile,
                   ledgerVars, retryVars, fnVars>>

\* The join rejected: start() rethrows, the CLI action catches and calls
\* process.exit(1); the 'exit' handler runs cleanup().
ProcessExit ==
    /\ orch.pc = "rejected"
    /\ LET c == Cleanup(Ledger(downloads, pendingWrite), disk, now)
       IN  /\ pendingWrite' = c.L.w
           /\ disk' = c.disk
    /\ orch' = [orch EXCEPT !.pc = "exited", !.exitCode = 1]
    /\ UNCHANGED <<config, jobs, server, sem, task, finalFile, partialFile,
                   downloads, now, ledgerLog, retryVars, fnVars>>

\* start() has returned and the CLI action with it: the process ends without
\* an error (once the interval timer is cleared by the signal handler) and
\* cleanup() runs.  A second run of cleanup() by the 'exit' handler gives
\* the same ledger and file.
CleanExit ==
    /\ orch.pc = "returned"
    /\ LET c == Cleanup(Ledger(downloads, pendingWrite), disk, now)
       IN  /\ pendingWrite' = c.L.w
           /\ disk' = c.disk
    /\ orch' = [orch EXCEPT !.pc = "exited", !.exitCode = 0]
    /\ UNCHANGED <<config, jobs, server, sem, task, finalFile, partialFile,
                   downloads, now, ledgerLog, retryVars, fnVars>>

Next ==
    \/ StartDownloadVideos
    \/ \E j \in J : TaskBegin(j)
    \/ \E j \in J : Respond(j)
    \/ \E j \in J : ReadChunk(j)
    \/ \E j \in J : ReadDone(j)
    \/ \E j \in J : ReadFail(j)
    \/ \E j \in J : Wake(j)
    \/ \E j \in J : TaskSettle(j)
    \/ Join
    \/ ProcessExit
    \/ CleanExit

(***************************************************************************)
(* Initial states and specifications.                                      *)
(***************************************************************************)
FnIdle    == [pc |-> "off", name |-> <<>>, out |-> <<>>]
FnOff     == fn = FnIdle
RetryOff  == /\ rOpts = [maxRetries |-> 0, baseDelay |-> 0, maxDelay |-> 0,
                         retryOnStatus |-> {}, hasOnRetry |-> FALSE,
                         enableJitter |-> Undefined, backoffMultiplier |-> 0]
             /\ r = RetryIdle
             /\ FnOff
LedgerOff == /\ downloads = EmptyMap
             /\ pendingWrite = NoWrite
             /\ disk = NoFile
             /\ now = 0
             /\ ledgerLog = LogIdle
DownloadOff ==
    /\ config = [maxConcurrentDownloads |-> 0, overwrite |-> FALSE]
    /\ jobs = <<>>
    /\ server = [answers |-> {}, chunks |-> {}, drops |-> FALSE, faults |-> {},
                 fileSize |-> 0, renames |-> {}]
    /\ sem = [permits |-> 0, waiting |-> <<>>]
    /\ task = <<>>
    /\ finalFile = <<>>
    /\ partialFile = <<>>
    /\ orch = [pc |-> "off", actualDownloads |-> 0, skippedFiles |-> 0,
              exitCode |-> NoExit]

Answer(status, contentLength, retryAfter) ==
    [status |-> status, contentLength |-> contentLength, retryAfter |-> retryAfter]

FileSize == 2 * CorruptThreshold         \* size of the remote file
JobName(j) == "video"

\* A record restored from the snapshot of an earlier session.
Restored(id, bytes) ==
    [k \in {id} |-> [id |-> id, filename |-> JobName(id), totalSize |-> FileSize,
                     downloadedSize |-> bytes, startTime |-> 0, completed |-> FALSE]]

InitRetry ==
    /\ rOpts \in RetryOptionChoices
    /\ r = RetryEntered
    /\ FnOff
    /\ LedgerOff
    /\ DownloadOff

\* The tracker of a first session, or of one that restored a record with
\* progress from the snapshot of an earlier session.
InitLedger ==
    /\ downloads \in {EmptyMap, [Restored(1, 512) EXCEPT ![1].filename = "a.mp4"]}
    /\ pendingWrite = NoWrite
    /\ disk = IF downloads = EmptyMap THEN NoFile ELSE Snapshot(downloads, 0)
    /\ now = 0
    /\ ledgerLog = LogIdle
    /\ RetryOff
    /\ DownloadOff

\* SpecJob: one job in every situation of its files, of the ledger and of
\* the server.
InitJob ==
    /\ RetryOff
    /\ \E size \in {0, FileSize} :
         jobs = <<[id |-> 1, size |-> size, name |-> JobName(1), filePath |-> 1]>>
    /\ config \in [maxConcurrentDownloads : {1}, overwrite : BOOLEAN]
    /\ server = [answers |-> {Answer(0, 0, 0), Answer(200, FileSize, 0),
                              Answer(200, 0, 0),
                              Answer(206, FileSize - 512, 0),
                              Answer(206, FileSize - CorruptThreshold, 0),
                              Answer(403, 0, 0), Answer(404, 0, 0),
                              Answer(416, 0, 0), Answer(429, 0, 0),
                              Answer(429, 0, 2), Answer(500, 0, 0)},
                 chunks |-> {512, CorruptThreshold}, drops |-> TRUE,
                 faults |-> {ConnectionDropped, DiskFull, AccessDenied},
                 fileSize |-> FileSize, renames |-> BOOLEAN]
    /\ sem = [permits |-> 0, waiting |-> <<>>]
    /\ task = <<TaskIdle>>
    /\ finalFile \in [{1} -> {Absent, CorruptThreshold, FileSize}]
    /\ partialFile \in [{1} -> {Absent, 0, 512, CorruptThreshold, FileSize,
                                 FileSize + 512}]
    /\ orch = [pc |-> "idle", actualDownloads |-> 0, skippedFiles |-> 0,
              exitCode |-> NoExit]
    /\ downloads \in {EmptyMap, Restored(1, CorruptThreshold),
                       Restored(2, CorruptThreshold)}
    /\ pendingWrite = NoWrite
    /\ disk = IF downloads = EmptyMap THEN NoFile ELSE Snapshot(downloads, 0)
    /\ now = 0
    /\ ledgerLog = LogIdle

\* Spec: NumJobs jobs of the same size, N permits.
InitJobs ==
    /\ RetryOff
    /\ jobs = [j \in 1..NumJobs |-> [id |-> j, size |-> FileSize, name |-> JobName(j),
                                     filePath |-> j]]
    /\ config \in [maxConcurrentDownloads : {1, 2}, overwrite : {FALSE}]
    /\ server = [answers |-> {Answer(200, FileSize, 0), Answer(403, 0, 0)},
                 chunks |-> {FileSize}, drops |-> TRUE,
                 faults |-> {ConnectionDropped}, fileSize |-> FileSize,
                 renames |-> {TRUE}]
    /\ sem = [permits |-> 0, waiting |-> <<>>]
    /\ task = [j \in 1..NumJobs |-> TaskIdle]
    /\ finalFile \in {[j \in 1..NumJobs |-> Absent],
                      [j \in 1..NumJobs |-> IF j = 1 THEN FileSize ELSE Absent]}
    /\ partialFile = [j \in 1..NumJobs |-> Absent]
    /\ orch = [pc |-> "idle", actualDownloads |-> 0, skippedFiles |-> 0,
              exitCode |-> NoExit]
    /\ LedgerOff

\* SpecSem: new Semaphore(N) and NumJobs callers.
InitSem ==
    /\ RetryOff
    /\ LedgerOff
    /\ config \in [maxConcurrentDownloads : {1, 2}, overwrite : {FALSE}]
    /\ jobs = <<>>
    /\ server = [answers |-> {}, chunks |-> {}, drops |-> FALSE, faults |-> {},
                 fileSize |-> 0, renames |-> {}]
    /\ sem = [permits |-> config.maxConcurrentDownloads, waiting |-> <<>>]
    /\ task = [j \in 1..NumJobs |-> CallerIdle]
    /\ finalFile = <<>>
    /\ partialFile = <<>>
    /\ orch = [pc |-> "off", actualDownloads |-> 0, skippedFiles |-> 0,
              exitCode |-> NoExit]

SpecSem    == InitSem /\ [][NextSem]_vars
SpecRetry  == InitRetry /\ [][NextRetry]_vars
SpecLedger == InitLedger /\ [][NextLedger]_vars
SpecJob    == InitJob /\ [][Next]_vars
Spec       == InitJobs /\ [][Next]_vars

(***************************************************************************)
(* Properties of RetryUtil.withRetry (SpecRetry).                          *)
(***************************************************************************)
NonRetryable(e) == e # NoError /\ IsNonRetryableError(e, rOpts.retryOnStatus)

\* C4: withRetry calls the operation at most maxRetries+1 times; exactly
\* once when the first call resolves; exactly maxRetries+1 times when every
\* call rejects with a retryable error, and then the error of the last call
\* is the one thrown.
C4_InvocationBound ==
    /\ r.calls <= rOpts.maxRetries + 1
    /\ (r.pc = "returned" /\ r.lastFailure = NoError => r.calls = 1)
    /\ (r.pc = "threw" /\ ~NonRetryable(r.thrown) =>
          /\ r.calls = rOpts.maxRetries + 1
          /\ r.thrown = r.lastFailure
          /\ r.thrown.at = r.calls)

C4_Witness ==
    /\ r.pc = "threw"
    /\ ~NonRetryable(r.thrown)
    /\ rOpts.maxRetries = MaxRetries
    /\ r.calls = MaxRetries + 1
    /\ r.thrown.at = MaxRetries + 1

\* C5 as stated: whenever withRetry ends on an error classified as not
\* retryable, the operation was called exactly once in total, nothing was
\* slept and onRetry was never called.
C5_OnceInTotal ==
    r.pc = "threw" /\ NonRetryable(r.thrown) =>
        r.calls = 1 /\ r.sleeps = 0 /\ r.onRetryCalls = 0

\* C5 amended: the call that rejects with an error classified as not
\* retryable is the last call of the operation and its error is the one
\* thrown; no sleep and no onRetry call is made for it, so the sleeps and the
\* onRetry calls are those of the earlier, retryable failures (none when it
\* is the first call).
C5_NonRetryableIsLastCall ==
    r.pc = "threw" /\ NonRetryable(r.thrown) =>
        /\ r.thrown = r.lastFailure
        /\ r.calls = r.thrown.at
        /\ r.sleeps = r.calls - 1
        /\ r.onRetryCalls = (IF rOpts.hasOnRetry THEN r.calls - 1 ELSE 0)
        /\ (r.thrown.at = 1 => r.calls = 1 /\ r.sleeps = 0 /\ r.onRetryCalls = 0)

C5_Witness ==
    /\ r.pc = "threw"
    /\ NonRetryable(r.thrown)
    /\ r.calls = 2
    /\ r.sleeps = 1
    /\ r.onRetryCalls = 1

C10_RoundTrip ==
    ledgerLog.op = "load" =>
        IF disk = NoFile THEN downloads = EmptyMap
        ELSE LET saved  == disk.from
                 active == {k \in DOMAIN saved : IsActive(saved[k])}
             IN  /\ DOMAIN downloads = active
                 /\ \A k \in active :
                      /\ downloads[k].id = saved[k].id
                      /\ downloads[k].downloadedSize = saved[k].downloadedSize
                      /\ Num(downloads[k], "totalSize") = Num(saved[k], "totalSize")

C10_Witness ==
    /\ ledgerLog.op = "load"
    /\ disk # NoFile
    /\ Cardinality(DOMAIN disk.from) = 2
    /\ Cardinality(DOMAIN downloads) = 1
    /\ \E k \in DOMAIN downloads : downloads[k].downloadedSize = 512

(***************************************************************************)
(* Properties of downloadVideos (Spec) and downloadSingleVideo (SpecJob).  *)
(***************************************************************************)
\* The tasks between a resolved acquire() and their release().
Holders ==
    {j \in J : task[j].pc \in {"acquired", "fetching", "streaming", "sleeping",
                               "returned", "threw"}}

\* C1: with N >= 1 permits, the number of tasks between a completed
\* acquire() and their release() never exceeds N (the permits left and the
\* holders always add up to N).
C1_AtMostNHolders ==
    (config.maxConcurrentDownloads >= 1 /\ orch.pc # "idle") =>
        /\ Cardinality(Holders) <= config.maxConcurrentDownloads
        /\ sem.permits >= 0
        /\ sem.permits + Cardinality(Holders) = config.maxConcurrentDownloads

C1_Witness ==
    /\ config.maxConcurrentDownloads = 2
    /\ Cardinality(Holders) = 2
    /\ Len(sem.waiting) > 0
    /\ \E j \in Holders : task[j].pc = "streaming"

\* C2 as stated: a job that fails for good is caught inside its task; the
\* join over the tasks is not rejected, nothing propagates out of
\* downloadVideos/start (the process does not exit on it), and no task
\* settles as rejected.
C2_FailureStaysInsideTask ==
    /\ orch.pc \notin {"rejected", "exited"}
    /\ \A j \in J : task[j].pc # "rejected"

\* C3 as stated: once a job has ended in terminal failure, its ledger record
\* is failed with an error message: it is among getFailedDownloads() and not
\* among getIncompleteDownloads().
C3_FailureRecordedInLedger ==
    \A j \in J :
        (task[j].result = "failed" /\ task[j].pc \in {"done", "rejected"}) =>
            /\ Has(downloads, jobs[j].id)
            /\ "errorMessage" \in DOMAIN downloads[jobs[j].id]
            /\ downloads[jobs[j].id] \in GetFailedDownloads(downloads)
            /\ downloads[jobs[j].id] \notin GetIncompleteDownloads(downloads)

\* `job.size || stats.size`, the full size of a file that is skipped.
FullSize(j) == IF jobs[j].size # 0 THEN jobs[j].size ELSE finalFile[j]

\* The destination exists with the expected size (or the expected size is 0
\* and the file is not empty) and overwrite is false.
DestinationComplete(j) ==
    /\ finalFile[j] # Absent
    /\ ~config.overwrite
    /\ \/ finalFile[j] = jobs[j].size
       \/ jobs[j].size = 0 /\ finalFile[j] > 0

\* C6: when the destination is complete and overwrite is false,
\* downloadSingleVideo returns 'skipped' without a request, leaves both
\* files as they were, and the ledger record is completed with downloadedSize
\* equal to the full size.
C6_SkipCompleteDestination ==
    [][ \A j \in J :
          (task[j].pc = "acquired" /\ task'[j].pc # "acquired" /\ DestinationComplete(j))
          =>
          /\ task'[j].pc = "returned"
          /\ task'[j].result = "skipped"
          /\ task'[j].requests = 0
          /\ finalFile' = finalFile
          /\ partialFile' = partialFile
          /\ Flag(downloads'[jobs[j].id], "completed")
          /\ ~Flag(downloads'[jobs[j].id], "failed")
          /\ downloads'[jobs[j].id].downloadedSize = FullSize(j)
      ]_vars

C6_Witness ==
    /\ J = {1}
    /\ task[1].result = "skipped"
    /\ task[1].requests = 0
    /\ jobs[1].size = 0
    /\ finalFile[1] = CorruptThreshold
    /\ partialFile[1] = 512
    /\ Flag(downloads[1], "completed")
    /\ downloads[1].downloadedSize = CorruptThreshold

\* C7: a job that is not skipped and has a staging file of size p with
\* 0 < p < job.size issues its first request with Range: bytes=p-, and the
\* ledger's downloadedSize is p when that request is issued.
C7_FirstRequestResumes ==
    [][ \A j \in J :
          (/\ task[j].pc = "acquired" /\ task'[j].pc # "acquired"
           /\ ~DestinationComplete(j)
           /\ partialFile[j] # Absent
           /\ 0 < partialFile[j] /\ partialFile[j] < jobs[j].size)
          =>
          /\ task'[j].pc = "fetching"
          /\ task'[j].requests = 1
          /\ task'[j].range = partialFile[j]
          /\ task'[j].firstRange = partialFile[j]
          /\ downloads'[jobs[j].id].downloadedSize = partialFile[j]
          /\ partialFile'[j] = partialFile[j]
      ]_vars

C7_Witness ==
    /\ J = {1}
    /\ task[1].pc = "streaming"
    /\ task[1].requests = 1
    /\ task[1].firstRange = 512
    /\ partialFile[1] = 512
    /\ downloads[1].downloadedSize = 512

\* C8 as stated: while the record of an id is active, its downloadedSize
\* never decreases from one ledger state to the next.
C8_BytesNeverDecrease ==
    [][ \A id \in DOMAIN downloads :
          (id \in DOMAIN downloads' /\ IsActive(downloads[id]) /\ IsActive(downloads'[id]))
          => downloads'[id].downloadedSize >= downloads[id].downloadedSize
      ]_vars

(***************************************************************************)
(* Classification and delays of withRetry (SpecRetry).                     *)
(***************************************************************************)
\* C14 as stated: a failure tagged PARSE_ERROR or INVALID_RESPONSE, whatever
\* its status, is never retried: it is thrown and the call that raised it is
\* the last call of the operation.
C14_ParseErrorsNeverRetried ==
    (r.lastFailure # NoError
     /\ r.lastFailure.errorType \in {"PARSE_ERROR", "INVALID_RESPONSE"}) =>
        /\ r.pc = "threw"
        /\ r.thrown = r.lastFailure
        /\ r.calls = r.lastFailure.at

\* The failure that led to the current sleep carries a usable hint.
Hinted(e) == e # NoError /\ e.status = 429 /\ Truthy(e.retryAfter)

EffectiveMultiplier == IF rOpts.backoffMultiplier = 0 THEN 2 ELSE rOpts.backoffMultiplier

C11_CleanupKeepsOrDeletes ==
    ledgerLog.op = "cleanup" =>
        IF GetIncompleteDownloads(downloads) = {}
        THEN disk = NoFile
        ELSE disk # NoFile /\ disk.from = downloads

\* C12: admission is first-in first-out.  A caller that finds no permit is
\* appended to the queue; a caller is admitted without queueing only when
\* nobody waits; every release() with callers waiting admits the head of the
\* queue, the caller waiting longest, and nobody else.
C12_FifoAdmission ==
    [][ \A j \in Callers :
          /\ (task[j].pc = "idle" /\ task'[j].pc = "waiting") =>
                sem'.waiting = Append(sem.waiting, j)
          /\ (task[j].pc = "idle" /\ task'[j].pc = "holding") =>
                sem.waiting = <<>>
          /\ (task[j].pc = "waiting" /\ task'[j].pc = "holding") =>
                /\ j = Head(sem.waiting)
                /\ sem'.waiting = Tail(sem.waiting)
                /\ \A i \in Callers \ {j} :
                     task[i].pc = "waiting" => task'[i].pc = "waiting"
          /\ (task[j].pc = "holding" /\ task'[j].pc = "idle" /\ sem.waiting # <<>>) =>
                task'[Head(sem.waiting)].pc = "holding"
      ]_vars

C12_Witness ==
    /\ config.maxConcurrentDownloads = 1
    /\ task[1].pc = "waiting" /\ task[1].rounds = 1
    /\ task[2].pc = "holding" /\ task[2].rounds = 0
    /\ sem.waiting = <<3, 1>>

(***************************************************************************)
(* Failures of an attempt of downloadSingleVideo (SpecJob).                *)
(***************************************************************************)
\* The error the catch block of withRetry handled last for job j.
Handling(j) == task[j].error
Failed(j)   == task[j].pc \in {"sleeping", "threw"} /\ Handling(j) # NoError

\* C13 as stated: an attempt answered 416 with retry budget left is followed
\* by a further attempt: withRetry does not throw; the staging file is gone
\* and the next request starts at offset 0.
C13_RangeErrorIsRetried ==
    \A j \in J :
        (Failed(j) /\ Handling(j).status = 416
         /\ task[j].attempt < DownloadMaxRetries) =>
            /\ task[j].pc = "sleeping"
            /\ task[j].resumeFrom = 0
            /\ partialFile[j] = Absent

\* C15 as stated: a disk-full or permission-denied failure raised during an
\* attempt is not retried: it is thrown and no wait for a next attempt
\* starts.
C15_SystemErrorsNotRetried ==
    \A j \in J :
        (Failed(j) /\ Handling(j).kw \cap {"enospc", "eacces"} # {}) =>
            task[j].pc = "threw"

\* C16 as stated: a ranged first request (offset p > 0) answered with 200
\* fails with a retryable SERVER_ERROR, the next attempt has no Range
\* header, and the staging file is still there unless p < 1024.
C16_FullAnswerKeepsStagingFile ==
    \A j \in J :
        (Failed(j) /\ Handling(j).status = 200 /\ task[j].requests = 1) =>
            /\ Handling(j).errorType = "SERVER_ERROR"
            /\ task[j].pc = "sleeping"
            /\ task[j].resumeFrom = 0
            /\ (task[j].firstRange >= CorruptThreshold =>
                    partialFile[j] = task[j].firstRange)

\* C17: when the stream loop of an attempt throws (a read or write failure,
\* the size check), the staging file stays when it holds at least 1024
\* bytes and is deleted when it holds less; no failing attempt creates or
\* changes the destination file.
C17_StreamErrorKeepsStagingFile ==
    [][ \A j \in J :
          /\ (task[j].pc = "streaming" /\ task'[j].pc \in {"sleeping", "threw"}) =>
                partialFile'[j] = (IF partialFile[j] < CorruptThreshold THEN Absent
                                   ELSE partialFile[j])
          /\ (task[j].pc \in {"fetching", "streaming"}
              /\ task'[j].pc \in {"sleeping", "threw"}) =>
                finalFile'[j] = finalFile[j]
      ]_vars

C17_Witness ==
    /\ J = {1}
    /\ task[1].pc = "sleeping"
    /\ Handling(1) = RaisedAt(ConnectionDropped, 2)
    /\ task[1].requests = 2
    /\ partialFile[1] = CorruptThreshold
    /\ finalFile[1] = Absent

\* C18: an attempt of a job with a known size (job.size # 0) whose staging
\* file does not hold exactly job.size bytes does not finish the job: the
\* staging file is not renamed to the destination and the record is not
\* completed; when the stream ends there, the attempt fails on the size
\* check.
C18_SizeMismatchFailsAttempt ==
    [][ \A j \in J :
          (/\ task[j].pc = "streaming"
           /\ jobs[j].size # 0
           /\ partialFile[j] # jobs[j].size)
          =>
          /\ task'[j].pc # "returned"
          /\ finalFile'[j] = finalFile[j]
          /\ ~Flag(downloads'[jobs[j].id], "completed")
          /\ (task'[j].pc # "streaming" =>
                task'[j].pc \in {"sleeping", "threw"} /\ task'[j].error # NoError)
      ]_vars

C18_Witness ==
    /\ J = {1}
    /\ jobs[1].size = FileSize
    /\ task[1].pc = "sleeping"
    /\ Handling(1) = RaisedAt(SizeCheckFailed, 1)
    /\ partialFile[1] = CorruptThreshold
    /\ finalFile[1] = Absent
    /\ IsActive(downloads[1])

(***************************************************************************)
(* The onRetry callback of withRetry (SpecRetry).                          *)
(***************************************************************************)
\* C21 as stated: onRetry fires exactly once per retry, with the 1-based
\* number of the failed attempt and its error: while withRetry waits for a
\* retry the callbacks made equal the calls of the operation made, and when
\* it has ended they equal the calls of the operation minus one.
C21_OnRetryOncePerRetry ==
    rOpts.hasOnRetry =>
        /\ (r.pc = "sleeping" =>
              /\ r.onRetryCalls = r.calls
              /\ r.onRetryAttempt = r.attempt + 1
              /\ r.onRetryError = r.lastFailure)
        /\ (r.pc \in {"returned", "threw"} => r.onRetryCalls = r.calls - 1)

(***************************************************************************)
(* Terminal records and the immediate save (SpecLedger).                   *)
(***************************************************************************)
\* C22 as stated: once the record of an id is completed or failed,
\* updateProgress, completeDownload and failDownload on that id leave the
\* record as it is; startDownload replaces it by a fresh active record with
\* downloadedSize 0.
C22_TerminalRecordFrozen ==
    [][ LET id == ledgerLog'.id
        IN  (/\ ledgerLog'.ops = ledgerLog.ops + 1
             /\ Has(downloads, id)
             /\ ~IsActive(downloads[id]))
            =>
            IF ledgerLog'.op = "start"
            THEN /\ IsActive(downloads'[id])
                 /\ downloads'[id].downloadedSize = 0
                 /\ DOMAIN downloads'[id] =
                      {"id", "filename", "totalSize", "downloadedSize", "startTime",
                       "completed"}
            ELSE downloads'[id] = downloads[id]
      ]_vars

\* C23: completeDownload(id) and failDownload(id) on an existing record hand
\* to Bun.write, before they return, the text of all the records as they are
\* after the call, the record of id with its new terminal flag; startDownload
\* and updateProgress (and complete/fail of an unknown id) issue no write.
C23_TerminalCallsSave ==
    [][ LET id == ledgerLog'.id
        IN  ledgerLog'.ops = ledgerLog.ops + 1 =>
              IF ledgerLog'.op \in {"complete", "fail"} /\ Has(downloads, id)
              THEN /\ pendingWrite'.kind = "snapshot"
                   /\ pendingWrite'.downloads =
                        {JsonStringify(downloads'[k]) : k \in DOMAIN downloads'}
                   /\ \E x \in pendingWrite'.downloads :
                        /\ x.id = id
                        /\ (ledgerLog'.op = "complete" =>
                              Flag(x, "completed") /\ ~Flag(x, "failed"))
                        /\ (ledgerLog'.op = "fail" =>
                              Flag(x, "failed") /\ "errorMessage" \in DOMAIN x)
              ELSE pendingWrite' = pendingWrite
      ]_vars

C23_Witness ==
    /\ ledgerLog.op = "complete"
    /\ ledgerLog.ops = 2
    /\ Cardinality(DOMAIN downloads) = 2
    /\ Flag(downloads[ledgerLog.id], "completed")
    /\ pendingWrite # NoWrite
    /\ Cardinality(pendingWrite.downloads) = 2
    /\ \E x \in pendingWrite.downloads : x.id = ledgerLog.id /\ Flag(x, "completed")

\* C28 as stated: when cleanup() has returned no Bun.write is still in
\* flight, and the file is final: it is deleted, or it holds the text of the
\* records in memory.
C28_ShutdownFlushIsSynchronous ==
    ledgerLog.op = "cleanup" =>
        /\ pendingWrite = NoWrite
        /\ \/ disk = NoFile
           \/ disk.downloads = {JsonStringify(downloads[k]) : k \in DOMAIN downloads}

(***************************************************************************)
(* The entry logic and the resume offset of downloadSingleVideo (SpecJob). *)
(***************************************************************************)
\* C26 as stated: when overwrite is set and the destination exists, the job
\* deletes the destination and starts fresh: it issues a first request
\* without a Range header, whatever the staging file is.
C26_OverwriteStartsFresh ==
    [][ \A j \in J :
          (/\ task[j].pc = "acquired" /\ task'[j].pc # "acquired"
           /\ config.overwrite
           /\ finalFile[j] # Absent)
          =>
          /\ finalFile'[j] = Absent
          /\ task'[j].pc = "fetching"
          /\ task'[j].requests = 1
          /\ task'[j].range = 0
          /\ task'[j].firstRange = 0
      ]_vars

\* C29 as stated: whenever a job issues a request (its first or a retry),
\* the offset of the Range header is the size of the staging file at that
\* moment, and there is no Range header when the staging file is absent or
\* empty.
C29_RequestOffsetIsStagingSize ==
    [][ \A j \in J :
          task'[j].requests = task[j].requests + 1 =>
              task'[j].range = (IF partialFile'[j] = Absent THEN 0 ELSE partialFile'[j])
      ]_vars

\* C30: a record becomes completed only in a step after which the
\* destination file exists; when that step is the promotion of the staging
\* file or the end of the stream, the staging file was renamed to the
\* destination in it; a step in which the rename failed does not complete
\* the record; so the destination of a job whose record is completed exists.
C30_CompletedOnlyAfterRename ==
    /\ [](\A j \in J :
            (Has(downloads, jobs[j].id) /\ Flag(downloads[jobs[j].id], "completed"))
            => finalFile[j] # Absent)
    /\ [][ \A j \in J :
             LET id  == jobs[j].id
                 was == Has(downloads, id) /\ Flag(downloads[id], "completed")
             IN  /\ (~was /\ Has(downloads', id) /\ Flag(downloads'[id], "completed")) =>
                       /\ finalFile'[j] # Absent
                       /\ (task'[j].result = "downloaded" =>
                             /\ partialFile[j] # Absent
                             /\ finalFile'[j] = partialFile[j]
                             /\ partialFile'[j] = Absent)
                 /\ (task'[j].error # task[j].error /\ task'[j].error # NoError
                     /\ task'[j].error.kw = RenameFailed.kw) =>
                       /\ ~Flag(downloads'[id], "completed")
                       /\ finalFile'[j] = finalFile[j]
         ]_vars

C30_Witness ==
    /\ J = {1}
    /\ task[1].result = "downloaded"
    /\ task[1].requests = 2
    /\ Flag(downloads[1], "completed")
    /\ finalFile[1] = FileSize
    /\ partialFile[1] = Absent

(***************************************************************************)
(* sanitizeFilename.  A string is a sequence of characters; "nbsp" stands  *)
(* for U+00A0, a white-space character outside \x00-\x1f.                  *)
(***************************************************************************)
MaxLen        == 3       \* SpecSanitize: inputs of up to MaxLen characters
MaxNameLength == 200     \* .slice(0, 200)

InvalidChars    == {"<", ">", ":", "\"", "/", "\\", "|", "?", "*"}
ControlChars    == {"\t", "\n", "\r"}              \* members of \x00-\x1f
WhitespaceChars == {" ", "\t", "\n", "\r", "nbsp"} \* members of \s
IsWhitespace(c) == c \in WhitespaceChars

ToUpperCase(c) ==
    CASE c = "c" -> "C" [] c = "o" -> "O" [] c = "n" -> "N" [] OTHER -> c

\* CON|PRN|AUX|NUL|COM[1-9]|LPT[1-9]
ReservedNames ==
    {<<"C", "O", "N">>, <<"P", "R", "N">>, <<"A", "U", "X">>, <<"N", "U", "L">>}
    \cup {<<"C", "O", "M", d>> : d \in {"1", "2", "3", "4", "5", "6", "7", "8", "9"}}
    \cup {<<"L", "P", "T", d>> : d \in {"1", "2", "3", "4", "5", "6", "7", "8", "9"}}

\* .replace(/[<>:"/\\|?*\x00-\x1f]/g, '_')
ReplaceInvalid(s) ==
    [i \in 1..Len(s) |-> IF s[i] \in InvalidChars \cup ControlChars THEN "_" ELSE s[i]]

\* .replace(/^(CON|PRN|AUX|NUL|COM[1-9]|LPT[1-9])$/i, '_$1')
PrefixReserved(s) ==
    IF [i \in 1..Len(s) |-> ToUpperCase(s[i])] \in ReservedNames
    THEN <<"_">> \o s ELSE s

\* .replace(/\s+/g, ' ')
\* (a white-space character is kept when it starts a run, as ' ')
CollapseWhitespace(s) ==
    LET kept == {i \in 1..Len(s) :
                   ~(IsWhitespace(s[i]) /\ i > 1 /\ IsWhitespace(s[i - 1]))}
        rank == [i \in 1..Len(s) |-> Cardinality({k \in kept : k <= i})]
    IN  [k \in 1..Cardinality(kept) |->
           LET i == CHOOSE x \in kept : rank[x] = k
           IN  IF IsWhitespace(s[i]) THEN " " ELSE s[i]]

\* .replace(/^\.+/, '')
StripLeadingDots(s) ==
    LET k == CHOOSE n \in 0..Len(s) :
                 /\ \A i \in 1..n : s[i] = "."
                 /\ (n < Len(s) => s[n + 1] # ".")
    IN  SubSeq(s, k + 1, Len(s))

\* .trim()
Trim(s) ==
    LET a == CHOOSE n \in 0..Len(s) :
                 /\ \A i \in 1..n : IsWhitespace(s[i])
                 /\ (n < Len(s) => ~IsWhitespace(s[n + 1]))
        t == SubSeq(s, a + 1, Len(s))
        b == CHOOSE n \in 0..Len(t) :
                 /\ \A i \in (Len(t) - n + 1)..Len(t) : IsWhitespace(t[i])
                 /\ (n < Len(t) => ~IsWhitespace(t[Len(t) - n]))
    IN  SubSeq(t, 1, Len(t) - b)

\* .slice(0, n)
Slice(s, n) == SubSeq(s, 1, Min(Len(s), n))

SanitizeFilename(filename) ==
    Slice(Trim(StripLeadingDots(CollapseWhitespace(PrefixReserved(
        ReplaceInvalid(filename))))), MaxNameLength)

(***************************************************************************)
(* SpecSanitize: one call of sanitizeFilename on a short string over       *)
(* Alphabet, or on a string about MaxNameLength long.                      *)
(***************************************************************************)
Alphabet == {":", "\t", " ", "nbsp", ".", "C", "O", "N"}
Strs(A, n) == UNION {[1..k -> A] : k \in 0..n}
Fill(n) == [i \in 1..n |-> "N"]
SanitizeInputs ==
    Strs(Alphabet, MaxLen)
    \cup {Fill(n) \o t : n \in (MaxNameLength - 2)..MaxNameLength,
                         t \in Strs({" ", "N"}, MaxLen)}

Sanitize ==
    /\ fn.pc = "called"
    /\ fn' = [fn EXCEPT !.pc = "returned", !.out = SanitizeFilename(fn.name)]
    /\ UNCHANGED <<retryVars, ledgerVars, dlVars>>

NextSanitize == Sanitize

InitSanitize ==
    /\ \E s \in SanitizeInputs : fn = [pc |-> "called", name |-> s, out |-> <<>>]
    /\ rOpts = [maxRetries |-> 0, baseDelay |-> 0, maxDelay |-> 0,
                retryOnStatus |-> {}, hasOnRetry |-> FALSE,
                enableJitter |-> Undefined, backoffMultiplier |-> 0]
    /\ r = RetryIdle
    /\ LedgerOff
    /\ DownloadOff

SpecSanitize == InitSanitize /\ [][NextSanitize]_vars

\* The characters sanitizeFilename replaces.
Unsafe(c) == c \in InvalidChars \cup ControlChars

\* C27 as stated: the result of sanitizeFilename holds no character of
\* < > : " / \ | ? * and no control character, each of them having been
\* replaced by '_'; it does not start with a dot, does not start or end with
\* white space, holds no run of two white-space characters and is at most
\* 200 characters long.
C27_SanitizedNameIsClean ==
    fn.pc = "returned" =>
        LET in  == fn.name
            out == fn.out
        IN  /\ \A i \in 1..Len(out) : ~Unsafe(out[i])
            /\ ((/\ Len(in) <= MaxNameLength
                 /\ \A i \in 1..Len(in) : in[i] \notin {" ", "nbsp", "."}
                 /\ in \notin ReservedNames)
                => out = [i \in 1..Len(in) |-> IF Unsafe(in[i]) THEN "_" ELSE in[i]])
            /\ (out # <<>> => /\ out[1] # "."
                              /\ ~IsWhitespace(out[1])
                              /\ ~IsWhitespace(out[Len(out)]))
            /\ \A i \in 1..(Len(out) - 1) :
                 ~(IsWhitespace(out[i]) /\ IsWhitespace(out[i + 1]))
            /\ Len(out) <= MaxNameLength

(***************************************************************************)
(* start(): verifyAuthentication, getAllFolders, getAllVideos,             *)
(* prepareDownloadJobs, downloadVideos, and the CLI action around it.      *)
(***************************************************************************)
NumVideos == 2       \* SpecStart: number of videos the account lists

ApiAnswer(status, retryAfter, json, download) ==
    [status |-> status, retryAfter |-> retryAfter, json |-> json, download |-> download]

\* apiRequest: the error it throws for the answer a of the server (status 0:
\* fetch rejected), NoError when it returns the parsed JSON.
ApiRequestError(a) ==
    IF a.status = 0
    THEN CreateNetworkError({"network connection failed"}, 0, 0, "CONNECTION_FAILED")
    ELSE IF a.status = 401
    THEN CreateNetworkError({"authentication failed"}, 401, 0, "AUTH_ERROR")
    ELSE IF a.status = 403
    THEN CreateNetworkError({"forbidden"}, 403, 0, "PERMISSION_ERROR")
    ELSE IF a.status = 429
    THEN CreateNetworkError({"rate limited"}, 429, a.retryAfter, "RATE_LIMIT")
    ELSE IF a.status >= 500
    THEN CreateNetworkError({"server error"}, a.status, 0, "SERVER_ERROR")
    ELSE IF a.status < 200 \/ a.status > 299
    THEN CreateNetworkError({"api request failed"}, a.status, 0, "API_ERROR")
    ELSE IF ~a.json
    THEN CreateNetworkError({"invalid response format"}, a.status, 0, "INVALID_RESPONSE")
    ELSE NoError

\* The RetryOptions of the three retried API calls.
ApiRetryOptions(call) ==
    [ maxRetries        |-> IF call = "videos" THEN 3 ELSE 2,
      baseDelay         |-> IF call = "videos" THEN 2000 ELSE 1000,
      maxDelay          |-> IF call = "videos" THEN 10000 ELSE 5000,
      retryOnStatus     |-> DefaultRetryOnStatus,
      hasOnRetry        |-> call # "auth",
      enableJitter      |-> Undefined,
      backoffMultiplier |-> 0 ]

\* ErrorHandler.classifyError(error).recoverable
Recoverable(e) ==
    IF e.errorType \in {"AUTH_ERROR", "PERMISSION_ERROR"} THEN FALSE
    ELSE IF e.errorType \in {"RATE_LIMIT", "CONNECTION_FAILED", "TIMEOUT", "SERVER_ERROR",
                             "PARSE_ERROR", "INVALID_RESPONSE"} THEN TRUE
    ELSE IF e.kw \cap {"enotfound", "dns", "econnrefused", "econnreset"} # {} THEN TRUE
    ELSE IF e.kw \cap {"enospc", "no space", "eacces", "permission denied"} # {} THEN FALSE
    ELSE TRUE

\* `${video.name}.${this.getFileExtension(type)}` for a video/mp4 link.
Extension == <<".", "m", "p", "4">>
DownloadInfoFilename(video) == SanitizeFilename(video.name \o Extension)

\* path.join(downloadPath, sanitized folder name if any, filename)
GenerateFilePath(video, filename) ==
    [dir  |-> IF video.inFolder THEN SanitizeFilename(video.folderName) ELSE <<>>,
     file |-> filename]

Video(uri, name, inFolder, folderName) ==
    [uri |-> uri, name |-> name, inFolder |-> inFolder, folderName |-> folderName]

\* The job prepareDownloadJobs pushes for a video with download info.
JobFor(video, size) ==
    [id |-> video.uri, size |-> size, name |-> video.name,
     filePath |-> GenerateFilePath(video, DownloadInfoFilename(video))]

PathsOf(videos) == {JobFor(videos[i], 0).filePath : i \in DOMAIN videos}

StartEntered ==
    [pc |-> "auth", actualDownloads |-> 0, skippedFiles |-> 0, exitCode |-> NoExit,
     asleep |-> FALSE, attempt |-> 0, k |-> 0, videos |-> <<>>,
     error |-> NoError, failedIn |-> "none", issued |-> {"auth"}]

\* Mutant: start() swallows the error and returns.
StartRejectsSwallowed(o, e) == [o EXCEPT !.pc = "returned", !.error = e, !.failedIn = o.pc]

\* start() rejects with e: the CLI action catches it and calls
\* process.exit(1).
StartRejects(o, e) == [o EXCEPT !.pc = "rejected", !.error = e, !.failedIn = o.pc]

\* prepareDownloadJobs after video k has been handled, js being the jobs
\* pushed so far: the request for the next video, or the end of the loop and
\* what start() does with the jobs.
AfterVideo(o, vs, k, js) ==
    /\ jobs' = js
    /\ task' = [j \in DOMAIN js |-> TaskIdle]
    /\ orch' = IF k < Len(vs)
               THEN [o EXCEPT !.pc = "info", !.videos = vs, !.k = k + 1, !.attempt = 0,
                              !.error = NoError, !.issued = @ \cup {"info"}]
               ELSE [o EXCEPT !.pc = IF Len(js) = 0 \/ config.dryRun THEN "returned"
                                     ELSE "idle",
                              !.videos = vs, !.attempt = 0, !.error = NoError]

\* The request of withRetry(apiRequest) in flight settles.
ApiSettles ==
    /\ orch.pc \in {"auth", "videos", "info"}
    /\ ~orch.asleep
    /\ \E a \in server.api :
         LET e == ApiRequestError(a)
             c == WithRetryCatch(orch.attempt, ApiRetryOptions(orch.pc), e, 0)
         IN  IF e # NoError /\ c.verdict = "sleep"
             THEN /\ orch' = [orch EXCEPT !.asleep = TRUE, !.error = e]
                  /\ UNCHANGED <<jobs, task>>
             ELSE CASE orch.pc = "auth" ->
                       /\ orch' = IF e # NoError THEN StartRejects(orch, e)
                                  ELSE [orch EXCEPT !.pc = "folders", !.attempt = 0,
                                                    !.error = NoError,
                                                    !.issued = @ \cup {"folders"}]
                       /\ UNCHANGED <<jobs, task>>
                    [] orch.pc = "videos" ->
                       IF e = NoError THEN AfterVideo(orch, server.videos, 0, <<>>)
                       ELSE IF Recoverable(e) THEN AfterVideo(orch, <<>>, 0, <<>>)
                       ELSE /\ orch' = StartRejects(orch, e)
                            /\ UNCHANGED <<jobs, task>>
                    [] orch.pc = "info" ->
                       AfterVideo(orch, orch.videos, orch.k,
                                  IF e = NoError /\ a.download
                                  THEN Append(jobs, JobFor(orch.videos[orch.k],
                                                           server.fileSize))
                                  ELSE jobs)
    /\ UNCHANGED <<config, server, sem, finalFile, partialFile, ledgerVars, retryVars,
                   fnVars>>

\* sleep(delay) of withRetry resolves: the next attempt issues its request.
ApiWake ==
    /\ orch.pc \in {"auth", "videos", "info"}
    /\ orch.asleep
    /\ orch' = [orch EXCEPT !.asleep = FALSE, !.attempt = @ + 1]
    /\ UNCHANGED <<config, jobs, server, sem, task, finalFile, partialFile,
                   ledgerVars, retryVars, fnVars>>

\* getAllFolders: the request for /me/projects settles; a failure is only
\* warned about.  getAllVideos issues its first request.
FoldersSettle ==
    /\ orch.pc = "folders"
    /\ orch' = [orch EXCEPT !.pc = "videos", !.attempt = 0,
                            !.issued = @ \cup {"videos"}]
    /\ UNCHANGED <<config, jobs, server, sem, task, finalFile, partialFile,
                   ledgerVars, retryVars, fnVars>>

NextStart == ApiSettles \/ ApiWake \/ FoldersSettle \/ Next

ApiAnswers ==
    {ApiAnswer(200, 0, TRUE, TRUE), ApiAnswer(200, 0, TRUE, FALSE),
     ApiAnswer(401, 0, TRUE, FALSE), ApiAnswer(500, 0, TRUE, FALSE),
     ApiAnswer(0, 0, FALSE, FALSE)}

\* The account: a first video named 'C:' and further videos that are named
\* 'C?' or 'N', or are named 'C?' and lie in the folder 'N'.
VideoLists ==
    {vs \in [1..NumVideos ->
               {Video(0, <<"C", ":">>, FALSE, <<>>), Video(0, <<"C", "?">>, FALSE, <<>>),
                Video(0, <<"N">>, FALSE, <<>>), Video(0, <<"C", "?">>, TRUE, <<"N">>)}] :
        /\ vs[1].name = <<"C", ":">>
        /\ \A i \in 2..NumVideos : vs[i].name # <<"C", ":">>}

InitStart ==
    /\ RetryOff
    /\ LedgerOff
    /\ config \in [maxConcurrentDownloads : {1, 2}, overwrite : {FALSE}, dryRun : BOOLEAN]
    /\ \E vs \in VideoLists :
         server = [answers |-> {Answer(200, FileSize, 0)}, chunks |-> {FileSize},
                   drops |-> TRUE, faults |-> {ConnectionDropped},
                   fileSize |-> FileSize, renames |-> {TRUE}, api |-> ApiAnswers,
                   videos |-> [i \in 1..NumVideos |-> [vs[i] EXCEPT !.uri = i]]]
    /\ jobs = <<>>
    /\ task = <<>>
    /\ sem = [permits |-> 0, waiting |-> <<>>]
    /\ finalFile = [p \in PathsOf(server.videos) |-> Absent]
    /\ partialFile = [p \in PathsOf(server.videos) |-> Absent]
    /\ orch = StartEntered

SpecStart == InitStart /\ [][NextStart]_vars

TransferRunning(j) == task[j].pc \in {"fetching", "streaming", "sleeping"}

C25_OneWriterPerKey ==
    \A i, j \in J :
        (i # j /\ TransferRunning(i) /\ TransferRunning(j)) =>
            /\ jobs[i].id # jobs[j].id
            /\ PathOf(i) # PathOf(j)

(***************************************************************************)
(* C31: when the listing call of getAllVideos ends without the list of     *)
(* the server (its last attempt failed), start() rejects; it does not go   *)
(* on with the videos collected so far.                                    *)
(***************************************************************************)
ListingEndsWithoutList ==
    /\ orch.pc = "videos"
    /\ orch'.pc # "videos"
    /\ orch'.videos # server.videos

C31_ListingFailureRejects ==
    [][ListingEndsWithoutList => orch'.pc = "rejected"]_vars

(***************************************************************************)
(* C32: while downloadVideos runs, the free permits and the permits held   *)
(* by job tasks (acquired and not yet through the finally block) add up    *)
(* to N: no task has released twice and none has settled without           *)
(* releasing, whether its job returned, threw, or the catch block threw.   *)
(* When every task has settled all N permits are free and no caller waits. *)
(***************************************************************************)
HoldsPermit(j) ==
    task[j].pc \in {"acquired", "fetching", "streaming", "sleeping", "returned", "threw"}

Settled(j) == task[j].pc \in {"done", "rejected"}

C32_PermitReleasedExactlyOnce ==
    orch.pc \in {"running", "rejected", "returned", "exited"} =>
        /\ sem.permits + Cardinality({j \in J : HoldsPermit(j)})
             = config.maxConcurrentDownloads
        /\ \A j \in J : task[j].pc = "waiting" <=> \E i \in DOMAIN sem.waiting : sem.waiting[i] = j
        /\ (\A j \in J : Settled(j)) =>
              sem.permits = config.maxConcurrentDownloads /\ sem.waiting = <<>>

C32_Witness ==
    /\ \A j \in J : Settled(j)
    /\ \E j \in J : task[j].pc = "rejected"
    /\ \E j \in J : task[j].result = "downloaded"
    /\ \E j \in J : task[j].result = "skipped"
    /\ sem.permits = config.maxConcurrentDownloads

(***************************************************************************)
(* C33: for a Semaphore(N) whose release() is only called by holders, the  *)
(* free permits stay within 0..N, free permits plus holders equal N, and   *)
(* a caller waits in the queue only while no permit is free.               *)
(***************************************************************************)
C33_SemaphoreAccounting ==
    /\ sem.permits >= 0
    /\ sem.permits <= config.maxConcurrentDownloads
    /\ sem.permits + Cardinality({j \in Callers : task[j].pc = "holding"})
         = config.maxConcurrentDownloads
    /\ sem.waiting # <<>> => sem.permits = 0

C33_Witness ==
    /\ sem.waiting # <<>>
    /\ sem.permits = 0
    /\ Cardinality({j \in Callers : task[j].pc = "holding"}) = 2
    /\ \E j \in Callers : task[j].rounds > 0

(***************************************************************************)
(* SpecLive: the jobs of Spec under a scheduler that runs a continuation   *)
(* or delivers an event whenever one is ready: every transfer attempt      *)
(* terminates.                                                             *)
(***************************************************************************)
SpecLive == InitJobs /\ [][Next]_vars /\ WF_vars(Next)

(***************************************************************************)
(* C34: with N >= 1 and every transfer attempt terminating, every job      *)
(* task eventually settles (it has acquired a permit, run its job and      *)
(* released the permit).                                                   *)
(***************************************************************************)
C34_AllTasksSettle == <>(\A j \in J : Settled(j))

(***************************************************************************)
(* SpecConc: the jobs of Spec with --concurrent given on the command line. *)
(***************************************************************************)
ConcurrentOptions == {"0", "-1", "abc", "1"}

InitConc ==
    /\ RetryOff
    /\ LedgerOff
    /\ jobs = [j \in 1..NumJobs |-> [id |-> j, size |-> FileSize, name |-> JobName(j),
                                     filePath |-> j]]
    /\ \E str \in ConcurrentOptions :
         config = [maxConcurrentDownloads |-> ParseInt(str), overwrite |-> FALSE]
    /\ server = [answers |-> {Answer(200, FileSize, 0), Answer(403, 0, 0)},
                 chunks |-> {FileSize}, drops |-> TRUE,
                 faults |-> {ConnectionDropped}, fileSize |-> FileSize,
                 renames |-> {TRUE}]
    /\ sem = [permits |-> 0, waiting |-> <<>>]
    /\ task = [j \in 1..NumJobs |-> TaskIdle]
    /\ finalFile = [j \in 1..NumJobs |-> IF j = 1 THEN FileSize ELSE Absent]
    /\ partialFile = [j \in 1..NumJobs |-> Absent]
    /\ orch = [pc |-> "idle", actualDownloads |-> 0, skippedFiles |-> 0,
              exitCode |-> NoExit]

SpecConc == InitConc /\ [][Next]_vars

(***************************************************************************)
(* C35: when maxConcurrentDownloads is 0, negative or NaN, no acquire()    *)
(* completes: every task stays suspended in acquire, no job starts (no     *)
(* request, no ledger record, no file touched), no permit count changes    *)
(* and downloadVideos does not return or reject.                           *)
(***************************************************************************)
C35_NoPermitNoProgress ==
    (config.maxConcurrentDownloads = NaN \/ config.maxConcurrentDownloads <= 0) =>
        /\ orch.pc \in {"idle", "running"}
        /\ \A j \in J : task[j].pc \in {"created", "waiting"} /\ task[j].requests = 0
        /\ orch.pc = "running" =>
              /\ sem.permits = config.maxConcurrentDownloads
              /\ sem.waiting = [j \in 1..Len(jobs) |-> j]
        /\ downloads = EmptyMap
        /\ pendingWrite = NoWrite
        /\ \A j \in J : partialFile[PathOf(j)] = Absent
        /\ finalFile = [j \in 1..Len(jobs) |-> IF j = 1 THEN FileSize ELSE Absent]

C35_Witness ==
    /\ config.maxConcurrentDownloads = NaN
    /\ orch.pc = "running"
    /\ \A j \in J : task[j].pc = "waiting"

(***************************************************************************)
(* C36: when a job whose expected size is known (non-zero) has returned    *)
(* 'downloaded' or 'skipped', the file at its destination path has         *)
(* exactly the expected size.                                              *)
(***************************************************************************)
C36_PublishedFileHasExpectedSize ==
    \A j \in J :
        (task[j].result \in {"downloaded", "skipped"} /\ jobs[j].size > 0) =>
            finalFile[PathOf(j)] = jobs[j].size

(***************************************************************************)
(* C37: a job that has returned 'downloaded' without issuing any request   *)
(* (its staging file was promoted) has a known, non-zero expected size,    *)
(* and the promoted file is at least that large.                           *)
(***************************************************************************)
C37_PromotionNeedsKnownSize ==
    \A j \in J :
        (task[j].result = "downloaded" /\ task[j].requests = 0) =>
            /\ jobs[j].size > 0
            /\ finalFile[PathOf(j)] >= jobs[j].size

(***************************************************************************)
(* C38: no ledger record is both completed and failed, so the failed       *)
(* records, the incomplete records and the completed records are pairwise  *)
(* disjoint and together are all records.                                  *)
(***************************************************************************)
C38_StatusExclusive ==
    LET all       == {downloads[k] : k \in DOMAIN downloads}
        failed    == GetFailedDownloads(downloads)
        active    == GetIncompleteDownloads(downloads)
        completed == {e \in all : Flag(e, "completed")}
    IN  /\ \A e \in all : ~(Flag(e, "completed") /\ Flag(e, "failed"))
        /\ failed \cap completed = {}
        /\ failed \cap active = {}
        /\ active \cap completed = {}
        /\ failed \cup active \cup completed = all

(***************************************************************************)
(* SpecLoad: a ProgressTracker has just been constructed on a directory    *)
(* that holds the snapshot of an earlier session; its loadProgress awaits  *)
(* the text of the file while the session already calls the tracker.       *)
(***************************************************************************)
\* The promise of Bun.file(...).text() settles and loadProgress sets every
\* incomplete record of the file in the map.  The text is the file as it
\* was when the read began or as it is now.
LoadCompletes ==
    /\ ledgerLog.loading # NoFile
    /\ ledgerLog.op # "cleanup"
    /\ \E file \in {ledgerLog.loading, disk} :
         downloads' = LoadProgress(downloads, file)
    /\ ledgerLog' = [ledgerLog EXCEPT !.loading = NoFile]
    /\ UNCHANGED <<pendingWrite, disk, now, retryVars, dlVars, fnVars>>

NextLoad ==
    LoadCompletes \/ ApiStart \/ ApiUpdate \/ ApiComplete \/ ApiFail \/ TimerSave
    \/ WriteLands \/ Tick \/ Shutdown

InitLoad ==
    /\ downloads = EmptyMap
    /\ pendingWrite = NoWrite
    /\ disk = Snapshot([Restored(1, 512) EXCEPT ![1].filename = "a.mp4"], 0)
    /\ now = 0
    /\ ledgerLog = [LogIdle EXCEPT !.loading = disk]
    /\ RetryOff
    /\ DownloadOff

SpecLoad == InitLoad /\ [][NextLoad]_vars

(***************************************************************************)
(* C39: when the load started by the constructor completes, every record   *)
(* the current session has put in the map keeps its values.                *)
(***************************************************************************)
C39_LoadKeepsSessionRecords ==
    [][(ledgerLog.loading # NoFile /\ ledgerLog.op # "cleanup"
          /\ ledgerLog'.loading = NoFile /\ ledgerLog'.op = ledgerLog.op
          /\ ledgerLog'.ops = ledgerLog.ops)
       => \A k \in DOMAIN downloads : downloads'[k] = downloads[k]]_vars

(***************************************************************************)
(* C40: when every job of the run has ended 'downloaded' or 'skipped' and  *)
(* the process has shut down cleanly, no ledger record is active and the   *)
(* snapshot file does not exist.                                           *)
(***************************************************************************)
C40_CleanShutdownDeletesSnapshot ==
    (/\ orch.pc = "exited"
     /\ orch.exitCode = 0
     /\ \A j \in J : task[j].result \in {"downloaded", "skipped"})
    => /\ GetIncompleteDownloads(downloads) = {}
       /\ disk = NoFile

====
